---- MODULE Spec2Model ----
(***************************************************************************)
(* CropGuard image preprocessing service: CropImageProcessor of            *)
(* backend/src/services/ai/preprocessing/image_processor.py.               *)
(***************************************************************************)
EXTENDS Integers, Sequences, FiniteSets, TLC

(***************************************************************************)
(* Python floats are IEEE-754 binary64.  A positive float is a record      *)
(* [m, e] of value m * 2^e with 2^52 <= m < 2^53.  The 53-bit significand  *)
(* does not fit a machine integer of the checker, so it is kept as three   *)
(* limbs <<l1, l2, l3>> of 27 bits, least significant first.               *)
(***************************************************************************)
Limb == 2^27

BigOf(n) == <<n % Limb, n \div Limb, 0>>

BigHalve(x) ==
    <<(x[1] \div 2) + (x[2] % 2) * (Limb \div 2),
      (x[2] \div 2) + (x[3] % 2) * (Limb \div 2),
      x[3] \div 2>>

BigAdd(x, y) ==
    LET s1 == x[1] + y[1]
        s2 == x[2] + y[2] + (s1 \div Limb)
        s3 == x[3] + y[3] + (s2 \div Limb)
    IN  <<s1 % Limb, s2 % Limb, s3>>

\* x - y for x >= y
BigSub(x, y) ==
    LET m1 == x[1] - y[1]
        m2 == x[2] - y[2] - (IF m1 < 0 THEN 1 ELSE 0)
        m3 == x[3] - y[3] - (IF m2 < 0 THEN 1 ELSE 0)
    IN  <<m1 % Limb, m2 % Limb, m3>>

BigGE(x, y) ==
    \/ x[3] > y[3]
    \/ x[3] = y[3] /\ x[2] > y[2]
    \/ x[3] = y[3] /\ x[2] = y[2] /\ x[1] >= y[1]

BigZero == <<0, 0, 0>>

BigOdd(x) == x[1] % 2 = 1

\* the number of bits of v, 0 <= v < 2^27
BitLen(v) == CHOOSE k \in 0..27 : v < 2^k /\ (k = 0 \/ v >= 2^(k - 1))

BigBitLen(x) ==
    IF x[3] > 0 THEN 54 + BitLen(x[3])
    ELSE IF x[2] > 0 THEN 27 + BitLen(x[2])
    ELSE BitLen(x[1])

\* x * 2^k, for a result below 2^81
BigShl(x, k) ==
    LET bits == k % 27
        keep == 2^(27 - bits)
        y1   == (x[1] % keep) * 2^bits
        y2   == (x[2] % keep) * 2^bits + (x[1] \div keep)
        y3   == (x[3] % keep) * 2^bits + (x[2] \div keep)
    IN  CASE k \div 27 = 0 -> <<y1, y2, y3>>
          [] k \div 27 = 1 -> <<0, y1, y2>>
          [] k \div 27 = 2 -> <<0, 0, y1>>
          [] OTHER -> BigZero

\* floor(x / 2^k)
BigShr(x, k) ==
    LET z    == CASE k \div 27 = 0 -> x
                  [] k \div 27 = 1 -> <<x[2], x[3], 0>>
                  [] k \div 27 = 2 -> <<x[3], 0, 0>>
                  [] OTHER -> BigZero
        bits == k % 27
        drop == 2^bits
    IN  <<(z[1] \div drop) + (z[2] % drop) * 2^(27 - bits),
          (z[2] \div drop) + (z[3] % drop) * 2^(27 - bits),
          z[3] \div drop>>

\* The significand cut bits shorter: kept is floor(x / 2^cut), half is
\* floor(x / 2^(cut - 1)), whose last bit is the first bit dropped.  Round to
\* nearest, ties to even; sticky says that something positive lies below x.
RoundCut(x, e, sticky, cut, kept, half) ==
    LET up == BigAdd(kept, BigOf(1))
    IN  IF BigOdd(half) /\ (sticky \/ BigShl(half, cut - 1) # x \/ BigOdd(kept))
        THEN IF BigBitLen(up) = 54
             THEN [m |-> BigHalve(up), e |-> e + cut + 1]
             ELSE [m |-> up, e |-> e + cut]
        ELSE [m |-> kept, e |-> e + cut]

\* x of len bits brought to a 53-bit significand
RoundLen(x, e, sticky, len) ==
    IF len <= 53
    THEN [m |-> BigShl(x, 53 - len), e |-> e - (53 - len)]
    ELSE LET kept == BigShr(x, len - 53)
             half == BigShr(x, len - 54)
         IN  RoundCut(x, e, sticky, len - 53, kept, half)

\* the float nearest to x * 2^e (plus something below its last bit when sticky)
RoundFloat(x, e, sticky) ==
    LET len == BigBitLen(x)
    IN  RoundLen(x, e, sticky, len)

\* float(n) for an int n >= 1 (exact: n < 2^53)
FromInt(n) == RoundFloat(BigOf(n), 0, FALSE)

\* d * x for a digit 0 <= d < 16
BigDigitTimes(d, x) ==
    LET p1 == d * x[1]
        p2 == d * x[2] + (p1 \div Limb)
        p3 == d * x[3] + (p2 \div Limb)
    IN  <<p1 % Limb, p2 % Limb, p3>>

\* n * x for an int 0 <= n < 4096, by the hexadecimal digits of n
BigTimes(n, x) ==
    LET lo  == BigDigitTimes(n % 16, x)
        mid == BigDigitTimes((n \div 16) % 16, x)
        hi  == BigDigitTimes(n \div 256, x)
    IN  BigAdd(lo, BigShl(BigAdd(mid, BigShl(hi, 4)), 4))

\* the quotient and the remainder once the next digit is known
WithDigit(qr, den, rem32, digit) ==
    [q   |-> BigAdd(BigShl(qr.q, 5), BigOf(digit)),
     rem |-> BigSub(rem32, BigTimes(digit, den))]

\* The digit floor(rem32 / den) is within one of its estimate est from the
\* leading limbs.
NextDigit(qr, den, rem32, est) ==
    LET digit == CHOOSE d \in (est - 1)..(est + 1) :
                     /\ d >= 0
                     /\ BigGE(rem32, BigTimes(d, den))
                     /\ ~BigGE(rem32, BigTimes(d + 1, den))
    IN  WithDigit(qr, den, rem32, digit)

\* Five more bits of a long division by den (2^52 <= den < 2^53, qr.rem < den)
DivStep(qr, den) ==
    LET rem32 == BigShl(qr.rem, 5)
        est   == (32 * qr.rem[2]) \div den[2]
    IN  NextDigit(qr, den, rem32, est)

\* n more steps of the long division: floor((qr.q * den + qr.rem) * 2^(5 * n)
\* / den) and what is left
RECURSIVE LongDiv(_, _, _)
LongDiv(qr, den, n) ==
    IF n = 0 \/ qr.rem = BigZero
    THEN [q |-> BigShl(qr.q, 5 * n), rem |-> qr.rem]
    ELSE LET step == DivStep(qr, den)
         IN  LongDiv(step, den, n - 1)

\* the quotient qr, an integer of 55 or 56 bits, as a float
RoundQuotient(qr, e) == RoundFloat(qr.q, e, qr.rem # BigZero)

\* f / g for positive floats: the exact quotient floor(f.m * 2^55 / g.m),
\* correctly rounded
FDiv(f, g) ==
    LET first == IF BigGE(f.m, g.m) THEN [q |-> BigOf(1), rem |-> BigSub(f.m, g.m)]
                                    ELSE [q |-> BigZero, rem |-> f.m]
        quot  == LongDiv(first, g.m, 11)
    IN  RoundQuotient(quot, f.e - g.e - 55)

\* n * f for an int n (1 <= n < 4096) and a float f: the exact product, rounded
FMulInt(n, f) ==
    LET prod == BigTimes(n, f.m)
    IN  RoundFloat(prod, f.e, FALSE)

\* f > g
FGT(f, g) == f.e > g.e \/ (f.e = g.e /\ f.m # g.m /\ BigGE(f.m, g.m))

\* int(f): truncation toward zero of a positive float below 2^27
PyInt(f) == IF f.e >= 0 THEN BigShl(f.m, f.e)[1] ELSE BigShr(f.m, 0 - f.e)[1]

(***************************************************************************)
(* Bounds of the model.                                                    *)
(***************************************************************************)
\* invocations of process_image by one caller
MaxCalls == 2
\* concurrent callers of one processor instance
NThreads == 2
\* invocations of process_image by each concurrent caller
ConcCalls == 1
\* elapsed times an invocation may measure, in ticks: 1..MaxTime
MaxTime == 2

(***************************************************************************)
(* CropImageProcessor.__init__                                             *)
(***************************************************************************)
DefaultTargetSize == <<512, 512>>

DefaultConfig ==
    [target_size      |-> DefaultTargetSize,
     noise_reduction  |-> TRUE,
     color_correction |-> TRUE,
     auto_crop        |-> TRUE]

\* {**defaults, **(config or {})}: any of the three switches overridden
Configs ==
    {[DefaultConfig EXCEPT !.noise_reduction = nr, !.color_correction = cc, !.auto_crop = ac] :
        nr \in BOOLEAN, cc \in BOOLEAN, ac \in BOOLEAN}

supported_formats == {".jpg", ".jpeg", ".png", ".webp", ".bmp", ".tiff"}

\* avg_processing_time is kept as the fraction <<ticks, count>> in lowest terms
InitStats == [processed_count |-> 0, error_count |-> 0, avg_processing_time |-> <<0, 1>>]

(***************************************************************************)
(* The file system as process_image sees it: an input path names a file    *)
(* that may not exist, with a suffix, a size in bytes and, when it can be  *)
(* decoded, the dimensions of the picture in it.                           *)
(***************************************************************************)
MaxFileSize == 20 * 1024 * 1024

Suffixes == {".jpg", ".JPG", ".Png", ".tiff", ".gif", ".GIF", ""}

\* str.lower() on the suffixes above
Lower(suffix) ==
    CASE suffix = ".JPG" -> ".jpg"
      [] suffix = ".Png" -> ".png"
      [] suffix = ".GIF" -> ".gif"
      [] OTHER -> suffix

ImageSizes == {<<10, 10>>, <<20, 10>>, <<10, 30>>}

\* the files the concurrent callers are given: a missing one and a good one
ConcurrentFiles ==
    {[exists |-> FALSE, suffix |-> ".jpg", st_size |-> 0, decodable |-> FALSE, size |-> <<1, 1>>],
     [exists |-> TRUE, suffix |-> ".jpg", st_size |-> 1024, decodable |-> TRUE, size |-> <<10, 10>>]}

InputFiles ==
    {[exists |-> FALSE, suffix |-> sf, st_size |-> 0, decodable |-> FALSE, size |-> <<1, 1>>] :
        sf \in {".jpg", ".gif"}}
    \cup
    {[exists |-> TRUE, suffix |-> sf, st_size |-> sz, decodable |-> TRUE, size |-> <<10, 10>>] :
        sf \in Suffixes, sz \in {MaxFileSize, MaxFileSize + 1}}
    \cup
    {[exists |-> TRUE, suffix |-> ".jpg", st_size |-> 1024, decodable |-> FALSE, size |-> <<1, 1>>]}
    \cup
    {[exists |-> TRUE, suffix |-> ".jpg", st_size |-> 1024, decodable |-> TRUE, size |-> sz] :
        sz \in ImageSizes}

(***************************************************************************)
(* _validate_input: the error it raises, or "ok".                          *)
(***************************************************************************)
\* _validate_input without the size check
ValidateInputNoSize(file) ==
    IF ~file.exists THEN "Input image not found"
    ELSE IF Lower(file.suffix) \notin supported_formats THEN "Unsupported image format"
    ELSE "ok"

ValidateInput(file) ==
    IF ~file.exists THEN "Input image not found"
    ELSE IF Lower(file.suffix) \notin supported_formats THEN "Unsupported image format"
    ELSE IF file.st_size > MaxFileSize THEN "Image file too large (max 20MB)"
    ELSE "ok"

(***************************************************************************)
(* A pixel buffer: its dimensions and the rectangle <<left, top, right,    *)
(* bottom>> of the decoded picture it shows.  padded says that part of the *)
(* buffer lies outside the picture it was cut from (PIL fills it black).   *)
(***************************************************************************)
NewImage(size) ==
    [width |-> size[1], height |-> size[2],
     region |-> <<0, 0, size[1], size[2]>>, padded |-> FALSE]

\* Image.crop(box): the box may reach outside the img
Crop(img, box) ==
    [width  |-> box[3] - box[1],
     height |-> box[4] - box[2],
     region |-> <<img.region[1] + box[1], img.region[2] + box[2],
                  img.region[1] + box[3], img.region[2] + box[4]>>,
     padded |-> \/ img.padded
                \/ box[1] < 0 \/ box[2] < 0
                \/ box[3] > img.width \/ box[4] > img.height]

\* Image.resize(size, LANCZOS): the same picture on another grid
Resize(img, size) == [img EXCEPT !.width = size[1], !.height = size[2]]

Max(i, j) == IF i >= j THEN i ELSE j
Min(i, j) == IF i <= j THEN i ELSE j

\* the literal 0.1: the float nearest to 1/10
Tenth == FDiv(FromInt(1), FromInt(10))

(***************************************************************************)
(* _auto_crop_plant.  The green mask is decided by the pixels: seen.kind   *)
(* is "none" when cv2.findContours returns no contour, "fault" when a step *)
(* inside the try raises, and "rect" when the largest contour has the      *)
(* bounding rectangle seen.rect = <<x, y, w, h>>.                          *)
(***************************************************************************)
\* int(extent * 0.1)
Padding(extent) ==
    LET scaled == FMulInt(extent, Tenth)
    IN  PyInt(scaled)

\* the rectangle <<left, top, right, bottom>> handed to image.crop
PaddedBox(img, rect, padding_x, padding_y) ==
    LET cx == Max(0, rect[1] - padding_x)
        cy == Max(0, rect[2] - padding_y)
        cw == Min(img.width - cx, rect[3] + 2 * padding_x)
        ch == Min(img.height - cy, rect[4] + 2 * padding_y)
    IN  <<cx, cy, cx + cw, cy + ch>>

CropBox(img, rect) ==
    LET padding_x == Padding(img.width)
        padding_y == Padding(img.height)
    IN  PaddedBox(img, rect, padding_x, padding_y)

\* _auto_crop_plant without the "if contours" guard and the try
AutoCropPlantUnguarded(img, seen) == Crop(img, CropBox(img, seen.rect))

AutoCropPlant(img, seen) ==
    IF seen.kind \in {"none", "fault"} THEN img
    ELSE Crop(img, CropBox(img, seen.rect))

NoContours == [kind |-> "none", rect |-> <<0, 0, 0, 0>>]
LocatorFault == [kind |-> "fault", rect |-> <<0, 0, 0, 0>>]
Contour(rect) == [kind |-> "rect", rect |-> rect]

\* the bounding rectangles cv2.boundingRect can return in a w x h mask
Rects(w, h) ==
    {<<x, y, rw, rh>> \in (0..(w - 1)) \X (0..(h - 1)) \X (1..w) \X (1..h) :
        x + rw <= w /\ y + rh <= h}

(***************************************************************************)
(* _smart_resize: the scaled size, the centre-crop box (<<>> when the      *)
(* scaled size is the target already) and the buffer returned.             *)
(***************************************************************************)
\* the size the buffer is scaled to, from the two aspect ratios
ScaledSize(target_width, target_height, original_ratio, target_ratio) ==
    IF FGT(original_ratio, target_ratio)
    THEN LET scaled == FMulInt(target_height, original_ratio)
         IN  <<PyInt(scaled), target_height>>
    ELSE LET scaled == FDiv(FromInt(target_width), original_ratio)
         IN  <<target_width, PyInt(scaled)>>

\* the centre-crop box in a buffer of new_size
CentreBox(new_size, target_size) ==
    LET left == (new_size[1] - target_size[1]) \div 2
        top  == (new_size[2] - target_size[2]) \div 2
    IN  <<left, top, left + target_size[1], top + target_size[2]>>

\* resize to new_size, then crop to the target if the size is not the target
ResizeAndCrop(img, new_size, target_size) ==
    IF new_size # target_size
    THEN [new_size |-> new_size,
          box      |-> CentreBox(new_size, target_size),
          image    |-> Crop(Resize(img, new_size), CentreBox(new_size, target_size))]
    ELSE [new_size |-> new_size, box |-> <<>>, image |-> Resize(img, new_size)]

SmartResize(img, cfg) ==
    LET original_ratio == FDiv(FromInt(img.width), FromInt(img.height))
        target_ratio   == FDiv(FromInt(cfg.target_size[1]), FromInt(cfg.target_size[2]))
        new_size       == ScaledSize(cfg.target_size[1], cfg.target_size[2],
                                     original_ratio, target_ratio)
    IN  ResizeAndCrop(img, new_size, cfg.target_size)

(***************************************************************************)
(* _get_applied_preprocessing                                              *)
(***************************************************************************)
\* _get_applied_preprocessing without the tests of the flags
AppliedWhateverTheFlags(cfg) ==
    <<"auto_crop_plant_focus", "resize_to_512x512", "lighting_normalization",
      "contrast_enhancement", "sharpness_enhancement", "color_correction", "noise_reduction">>

GetAppliedPreprocessing(cfg) ==
    LET steps0 == <<"resize_to_512x512", "lighting_normalization",
                    "contrast_enhancement", "sharpness_enhancement">>
        steps1 == IF cfg.auto_crop THEN <<"auto_crop_plant_focus">> \o steps0 ELSE steps0
        steps2 == IF cfg.color_correction THEN Append(steps1, "color_correction") ELSE steps1
        steps3 == IF cfg.noise_reduction THEN Append(steps2, "noise_reduction") ELSE steps2
    IN  steps3

(***************************************************************************)
(* The state: one processor instance (config, stats) and its callers.      *)
(* Each caller t is at pc[t] in process_image, with the locals of the      *)
(* invocation.                                                             *)
(***************************************************************************)
VARIABLES
    config,     \* self.config
    stats,      \* self.stats
    pc,         \* where each caller is in process_image
    input,      \* the file input_path names
    image,      \* the buffer the pipeline holds
    executed,   \* the methods the invocation has called so far, in order
    found,      \* what the Subject Locator saw in this invocation
    ptime,      \* processing_time
    tmp,        \* the value read from self.stats by a += under way
    err,        \* the exception being handled
    result,     \* the dictionary returned
    entry,      \* self.stats as it was when the invocation started
    calls,      \* invocations started by each caller
    returned,   \* results returned so far, by success
    fnArg,      \* a method called on its own: its argument
    fnRet       \* and what it returned

vars == <<config, stats, pc, input, image, executed, found, ptime, tmp, err,
          result, entry, calls, returned, fnArg, fnRet>>

\* no method has been called on its own
NoCall == [op |-> "none"]

NoImage == [width |-> 0, height |-> 0, region |-> <<0, 0, 0, 0>>, padded |-> FALSE]
NotSeen == [kind |-> "unset", rect |-> <<0, 0, 0, 0>>]
NoError == [class |-> "", message |-> ""]
\* no dictionary returned yet
Pending == [success |-> FALSE, pending |-> TRUE]

\* every exception a step of the pipeline raises derives from Exception
ExceptionClasses == {"FileNotFoundError", "ValueError", "cv2.error", "OSError", "MemoryError"}

\* except ValueError as e
CaughtValueError(class) == class = "ValueError"

\* except Exception as e
Caught(class) == class \in ExceptionClasses

\* results returned so far: successes, failures, and the failures that came
\* after processed_count was incremented
NoneReturned == [ok |-> 0, failed |-> 0, late |-> 0]

NoFile == [exists |-> FALSE, suffix |-> "", st_size |-> 0, decodable |-> FALSE, size |-> <<1, 1>>]

InitCallers(threads) ==
    /\ stats = InitStats
    /\ pc = [t \in threads |-> "idle"]
    /\ input = [t \in threads |-> NoFile]
    /\ image = [t \in threads |-> NoImage]
    /\ executed = [t \in threads |-> <<>>]
    /\ found = [t \in threads |-> NotSeen]
    /\ ptime = [t \in threads |-> 0]
    /\ tmp = [t \in threads |-> 0]
    /\ err = [t \in threads |-> NoError]
    /\ result = [t \in threads |-> Pending]
    /\ entry = [t \in threads |-> InitStats]
    /\ calls = [t \in threads |-> 0]
    /\ returned = NoneReturned

\* the callers of the instance: one that calls again and again, or NThreads
\* host threads
Caller == {1}
Workers == 1..NThreads

Init ==
    /\ config \in Configs
    /\ InitCallers(Caller)
    /\ fnArg = NoCall
    /\ fnRet = NoCall

\* a step of caller t that raises: the try block is left for the handler
Raise(t, class, message) ==
    /\ err' = [err EXCEPT ![t] = [class |-> class, message |-> message]]
    /\ pc' = [pc EXCEPT ![t] = IF Caught(class) THEN "except" ELSE "escaped"]

Call(t, method) == executed' = [executed EXCEPT ![t] = Append(@, method)]

\* process_image is entered: start_time is taken
Begin(t, files, limit) ==
    /\ pc[t] \in {"idle", "done"}
    /\ calls[t] < limit
    /\ \E file \in files : input' = [input EXCEPT ![t] = file]
    /\ pc' = [pc EXCEPT ![t] = "validate"]
    /\ image' = [image EXCEPT ![t] = NoImage]
    /\ executed' = [executed EXCEPT ![t] = <<>>]
    /\ found' = [found EXCEPT ![t] = NotSeen]
    /\ ptime' = [ptime EXCEPT ![t] = 0]
    /\ err' = [err EXCEPT ![t] = NoError]
    /\ result' = [result EXCEPT ![t] = Pending]
    /\ entry' = [entry EXCEPT ![t] = stats]
    /\ calls' = [calls EXCEPT ![t] = @ + 1]
    /\ UNCHANGED <<config, stats, tmp, returned, fnArg, fnRet>>

\* one caller at a time
StartSequential(t) ==
    /\ \A u \in DOMAIN pc : pc[u] \in {"idle", "done"}
    /\ Begin(t, InputFiles, MaxCalls)

\* any caller at any time
StartConcurrent(t) ==
    /\ t \in DOMAIN pc
    /\ Begin(t, ConcurrentFiles, ConcCalls)

\* self._validate_input(input_path)
Validate(t) ==
    /\ pc[t] = "validate"
    /\ Call(t, "_validate_input")
    /\ LET verdict == ValidateInput(input[t])
       IN  IF verdict = "ok"
           THEN pc' = [pc EXCEPT ![t] = "load"] /\ UNCHANGED err
           ELSE Raise(t, IF input[t].exists THEN "ValueError" ELSE "FileNotFoundError", verdict)
    /\ UNCHANGED <<config, stats, input, image, found, ptime, tmp, result, entry, calls,
                   returned, fnArg, fnRet>>

\* image = self._load_image(input_path)
Load(t) ==
    /\ pc[t] = "load"
    /\ Call(t, "_load_image")
    /\ IF input[t].decodable
       THEN /\ image' = [image EXCEPT ![t] = NewImage(input[t].size)]
            /\ pc' = [pc EXCEPT ![t] = "auto_crop"]
            /\ UNCHANGED err
       ELSE /\ Raise(t, "ValueError", "Failed to load image")
            /\ UNCHANGED image
    /\ UNCHANGED <<config, stats, input, found, ptime, tmp, result, entry, calls,
                   returned, fnArg, fnRet>>

\* the rectangles the Subject Locator is shown in the pipeline runs
SampleRects(img) ==
    {<<0, 0, img.width, img.height>>, <<img.width \div 2, img.height \div 2, 1, 1>>}

\* Step 1: if self.config['auto_crop']: image = self._auto_crop_plant(image)
AutoCrop(t) ==
    /\ pc[t] = "auto_crop"
    /\ IF config.auto_crop
       THEN /\ Call(t, "_auto_crop_plant")
            /\ \E seen \in {NoContours, LocatorFault}
                           \cup {Contour(rect) : rect \in SampleRects(image[t])} :
                  /\ found' = [found EXCEPT ![t] = seen]
                  /\ image' = [image EXCEPT ![t] = AutoCropPlant(image[t], seen)]
       ELSE UNCHANGED <<executed, found, image>>
    /\ pc' = [pc EXCEPT ![t] = "resize"]
    /\ UNCHANGED <<config, stats, input, ptime, tmp, err, result, entry, calls,
                   returned, fnArg, fnRet>>

\* a stage of _preprocess_pipeline that keeps the dimensions: it returns a
\* new buffer or raises
Stage(t, method, next) ==
    /\ Call(t, method)
    /\ \/ pc' = [pc EXCEPT ![t] = next] /\ UNCHANGED err
       \/ Raise(t, "cv2.error", method)
    /\ UNCHANGED <<config, stats, input, image, found, ptime, tmp, result, entry, calls,
                   returned, fnArg, fnRet>>

Skip(t, next) ==
    /\ pc' = [pc EXCEPT ![t] = next]
    /\ UNCHANGED <<config, stats, input, image, executed, found, ptime, tmp, err, result,
                   entry, calls, returned, fnArg, fnRet>>

\* Step 2: image = self._smart_resize(image)
Resized(t) ==
    /\ pc[t] = "resize"
    /\ Call(t, "_smart_resize")
    /\ \/ /\ image' = [image EXCEPT ![t] = SmartResize(image[t], config).image]
          /\ pc' = [pc EXCEPT ![t] = "lighting"]
          /\ UNCHANGED err
       \/ /\ Raise(t, "MemoryError", "_smart_resize")
          /\ UNCHANGED image
    /\ UNCHANGED <<config, stats, input, found, ptime, tmp, result, entry, calls,
                   returned, fnArg, fnRet>>

\* Step 3: image = self._normalize_lighting(image)
NormalizeLighting(t) ==
    /\ pc[t] = "lighting"
    /\ Stage(t, "_normalize_lighting", "color")

\* Step 4: if self.config['color_correction']: image = self._correct_colors(image)
CorrectColorsStage(t) ==
    /\ pc[t] = "color"
    /\ IF config.color_correction THEN Stage(t, "_correct_colors", "enhance")
                                  ELSE Skip(t, "enhance")

\* Step 5: image = self._enhance_quality(image)
EnhanceQuality(t) ==
    /\ pc[t] = "enhance"
    /\ Stage(t, "_enhance_quality", "noise")

\* Step 6: if self.config['noise_reduction']: image = self._reduce_noise(image)
ReduceNoise(t) ==
    /\ pc[t] = "noise"
    /\ IF config.noise_reduction THEN Stage(t, "_reduce_noise", "save")
                                 ELSE Skip(t, "save")

\* self._save_image(processed_image, output_path), then
\* processing_time = time.time() - start_time
SaveImage(t) ==
    /\ pc[t] = "save"
    /\ Call(t, "_save_image")
    /\ \/ /\ \E ticks \in 1..MaxTime : ptime' = [ptime EXCEPT ![t] = ticks]
          /\ pc' = [pc EXCEPT ![t] = "count_read"]
          /\ UNCHANGED err
       \/ /\ Raise(t, "OSError", "_save_image")
          /\ UNCHANGED ptime
    /\ UNCHANGED <<config, stats, input, image, found, tmp, result, entry, calls,
                   returned, fnArg, fnRet>>

\* self.stats['processed_count'] += 1 : the read ...
CountRead(t) ==
    /\ pc[t] = "count_read"
    /\ tmp' = [tmp EXCEPT ![t] = stats.processed_count]
    /\ pc' = [pc EXCEPT ![t] = "count_write"]
    /\ UNCHANGED <<config, stats, input, image, executed, found, ptime, err, result,
                   entry, calls, returned, fnArg, fnRet>>

\* ... and the store
CountWrite(t) ==
    /\ pc[t] = "count_write"
    /\ stats' = [stats EXCEPT !.processed_count = tmp[t] + 1]
    /\ pc' = [pc EXCEPT ![t] = "average"]
    /\ UNCHANGED <<config, input, image, executed, found, ptime, tmp, err, result,
                   entry, calls, returned, fnArg, fnRet>>

RECURSIVE GCD(_, _)
GCD(i, j) == IF j = 0 THEN i ELSE GCD(j, i % j)

Fraction(num, den) == <<num \div GCD(num, den), den \div GCD(num, den)>>

\* (avg * (count - 1) + processing_time) / count, avg being <<ticks, n>>
RunningAverage(avg, count, ticks) ==
    Fraction(avg[1] * (count - 1) + ticks * avg[2], avg[2] * count)

\* self.stats['avg_processing_time'] = (...) / self.stats['processed_count']
UpdateAverage(t) ==
    /\ pc[t] = "average"
    /\ stats' = [stats EXCEPT !.avg_processing_time =
                     RunningAverage(@, stats.processed_count, ptime[t])]
    /\ pc' = [pc EXCEPT ![t] = "assemble"]
    /\ UNCHANGED <<config, input, image, executed, found, ptime, tmp, err, result,
                   entry, calls, returned, fnArg, fnRet>>

\* result = {...}; return result.  os.path.getsize and
\* _calculate_quality_metrics are called while the dictionary is built.
Assemble(t) ==
    /\ pc[t] = "assemble"
    /\ Call(t, "_calculate_quality_metrics")
    /\ \/ /\ result' = [result EXCEPT ![t] =
                  [success |-> TRUE,
                   original_size |-> input[t].size,
                   processed_size |-> <<image[t].width, image[t].height>>,
                   processing_time |-> ptime[t],
                   preprocessing_applied |-> GetAppliedPreprocessing(config)]]
          /\ pc' = [pc EXCEPT ![t] = "done"]
          /\ returned' = [returned EXCEPT !.ok = @ + 1]
          /\ UNCHANGED err
       \/ /\ \E class \in {"OSError", "cv2.error"} : Raise(t, class, "result")
          /\ returned' = [returned EXCEPT !.late = @ + 1]
          /\ UNCHANGED result
    /\ UNCHANGED <<config, stats, input, image, found, ptime, tmp, entry, calls,
                   fnArg, fnRet>>

\* except Exception as e: self.stats['error_count'] += 1 : the read ...
ErrorRead(t) ==
    /\ pc[t] = "except"
    /\ tmp' = [tmp EXCEPT ![t] = stats.error_count]
    /\ pc' = [pc EXCEPT ![t] = "error_write"]
    /\ UNCHANGED <<config, stats, input, image, executed, found, ptime, err, result,
                   entry, calls, returned, fnArg, fnRet>>

\* the error is not counted
ErrorNotCounted(st, read) == st

\* self.stats['error_count'] += 1 : the store of the value read, plus one
ErrorCounted(st, read) == [st EXCEPT !.error_count = read + 1]

\* ... the store, and return {'success': False, 'error': str(e), ...}
ErrorWrite(t) ==
    /\ pc[t] = "error_write"
    /\ stats' = ErrorCounted(stats, tmp[t])
    /\ result' = [result EXCEPT ![t] = [success |-> FALSE, error |-> err[t].message]]
    /\ pc' = [pc EXCEPT ![t] = "done"]
    /\ returned' = [returned EXCEPT !.failed = @ + 1]
    /\ UNCHANGED <<config, input, image, executed, found, ptime, tmp, err, entry, calls,
                   fnArg, fnRet>>

Next ==
    \/ \E t \in Caller : StartSequential(t)
    \/ \E t \in Caller : Validate(t)
    \/ \E t \in Caller : Load(t)
    \/ \E t \in Caller : AutoCrop(t)
    \/ \E t \in Caller : Resized(t)
    \/ \E t \in Caller : NormalizeLighting(t)
    \/ \E t \in Caller : CorrectColorsStage(t)
    \/ \E t \in Caller : EnhanceQuality(t)
    \/ \E t \in Caller : ReduceNoise(t)
    \/ \E t \in Caller : SaveImage(t)
    \/ \E t \in Caller : CountRead(t)
    \/ \E t \in Caller : CountWrite(t)
    \/ \E t \in Caller : UpdateAverage(t)
    \/ \E t \in Caller : Assemble(t)
    \/ \E t \in Caller : ErrorRead(t)
    \/ \E t \in Caller : ErrorWrite(t)

Spec == Init /\ [][Next]_vars

(***************************************************************************)
(* Host threads calling process_image on one instance.  Python switches    *)
(* threads between the bytecodes of a += on a dictionary entry, and the    *)
(* class takes no lock: the read and the store are separate steps.         *)
(***************************************************************************)
InitConc ==
    /\ config = DefaultConfig
    /\ InitCallers(Workers)
    /\ fnArg = NoCall
    /\ fnRet = NoCall

NextConc ==
    \/ \E t \in Workers : StartConcurrent(t)
    \/ \E t \in Workers : Validate(t)
    \/ \E t \in Workers : Load(t)
    \/ \E t \in Workers : AutoCrop(t)
    \/ \E t \in Workers : Resized(t)
    \/ \E t \in Workers : NormalizeLighting(t)
    \/ \E t \in Workers : CorrectColorsStage(t)
    \/ \E t \in Workers : EnhanceQuality(t)
    \/ \E t \in Workers : ReduceNoise(t)
    \/ \E t \in Workers : SaveImage(t)
    \/ \E t \in Workers : CountRead(t)
    \/ \E t \in Workers : CountWrite(t)
    \/ \E t \in Workers : UpdateAverage(t)
    \/ \E t \in Workers : Assemble(t)
    \/ \E t \in Workers : ErrorRead(t)
    \/ \E t \in Workers : ErrorWrite(t)

SpecConc == InitConc /\ [][NextConc]_vars

(***************************************************************************)
(* _smart_resize called on its own, for every target size and every image  *)
(* size up to MaxDim.                                                      *)
(***************************************************************************)
\* the largest image and target dimension tried
MaxDim == 9

ResizeConfigs ==
    {[DefaultConfig EXCEPT !.target_size = <<tw, th>>] : tw \in 1..MaxDim, th \in 1..MaxDim}

InitResize ==
    /\ config \in ResizeConfigs
    /\ InitCallers(Caller)
    /\ fnArg = NoCall
    /\ fnRet = NoCall

Pipeline == <<stats, pc, input, image, executed, found, ptime, tmp, err, result, entry,
              calls, returned>>

SmartResizeCall ==
    /\ fnArg = NoCall
    /\ \E w \in 1..MaxDim, h \in 1..MaxDim :
          /\ fnArg' = [op |-> "_smart_resize", image |-> NewImage(<<w, h>>)]
          /\ fnRet' = [op |-> "_smart_resize", out |-> SmartResize(NewImage(<<w, h>>), config)]
    /\ UNCHANGED <<config, Pipeline>>

SpecResize == InitResize /\ [][SmartResizeCall]_vars

(***************************************************************************)
(* _auto_crop_plant called on its own, on every image of MinSide..MaxSide  *)
(* pixels a side and every bounding rectangle in it.                       *)
(***************************************************************************)
\* the smallest side with a padding of one pixel, and the largest side tried
MinSide == 10
MaxSide == 11

InitCrop ==
    /\ config = DefaultConfig
    /\ InitCallers(Caller)
    /\ fnArg = NoCall
    /\ fnRet = NoCall

AutoCropCall ==
    /\ fnArg = NoCall
    /\ \E w \in MinSide..MaxSide, h \in MinSide..MaxSide :
          \E seen \in {NoContours, LocatorFault} \cup {Contour(rect) : rect \in Rects(w, h)} :
             /\ fnArg' = [op |-> "_auto_crop_plant", image |-> NewImage(<<w, h>>), seen |-> seen]
             /\ fnRet' = [op |-> "_auto_crop_plant", out |-> AutoCropPlant(NewImage(<<w, h>>), seen)]
    /\ UNCHANGED <<config, Pipeline>>

SpecCrop == InitCrop /\ [][AutoCropCall]_vars

(***************************************************************************)
(* _correct_colors.  A buffer is a sequence of pixels <<r, g, b>> of 8-bit *)
(* values.  With S_c the sum of channel c, the code scales channel c by    *)
(* 1 + 0.3 * (S_g / S_c - 1) = (7 * S_c + 3 * S_g) / (10 * S_c), or by 1.0 *)
(* when the channel mean is 0.  The arithmetic is done on float32 values   *)
(* p / 255 and ends with clip(.. * 255, 0, 255).astype(uint8), which       *)
(* truncates: where the exact product lies within the rounding error of    *)
(* an integer, either neighbour can come out.                              *)
(***************************************************************************)
\* pixels in a buffer
NPixels == 2

Levels == {0, 100, 104, 255}

Buffers == [1..NPixels -> Levels \X Levels \X Levels]

RECURSIVE ChannelSum(_, _)
ChannelSum(pixels, ch) ==
    IF pixels = <<>> THEN 0 ELSE Head(pixels)[ch] + ChannelSum(Tail(pixels), ch)

\* the scale as the fraction <<numerator, denominator>>, fully corrected:
\* correction_strength = 1.0
FullScale(sum_c, sum_g) == IF sum_c > 0 THEN <<sum_g, sum_c>> ELSE <<1, 1>>

\* scale = avg_g / avg_c if avg_c > 0 else 1.0; scale = 1.0 + (scale - 1.0) * 0.3
Scale(sum_c, sum_g) ==
    IF sum_c > 0 THEN <<7 * sum_c + 3 * sum_g, 10 * sum_c>> ELSE <<1, 1>>

\* the relative rounding error of the float32 steps is below 1 / FloatSlack
FloatSlack == 2^20

\* np.clip(p / 255 * scale * 255, 0, 255).astype(np.uint8): the bytes that can
\* come out
Requantized(p, scale) ==
    LET num   == p * scale[1]
        den   == scale[2]
        exact == num \div den
        slack == num \div FloatSlack
    IN  {Min(255, exact)}
        \cup (IF exact > 0 /\ num % den <= slack THEN {Min(255, exact - 1)} ELSE {})
        \cup (IF den - (num % den) <= slack THEN {Min(255, exact + 1)} ELSE {})

RECURSIVE Scaled(_, _, _)
Scaled(pixels, scale_r, scale_b) ==
    IF pixels = <<>> THEN {<<>>}
    ELSE {<<<<r, Head(pixels)[2], b>>>> \o rest :
             r \in Requantized(Head(pixels)[1], scale_r),
             b \in Requantized(Head(pixels)[3], scale_b),
             rest \in Scaled(Tail(pixels), scale_r, scale_b)}

\* the buffers _correct_colors can return
CorrectColors(pixels) ==
    Scaled(pixels,
           Scale(ChannelSum(pixels, 1), ChannelSum(pixels, 2)),
           Scale(ChannelSum(pixels, 3), ChannelSum(pixels, 2)))

InitColors ==
    /\ config = DefaultConfig
    /\ InitCallers(Caller)
    /\ fnArg = NoCall
    /\ fnRet = NoCall

CorrectColorsCall ==
    /\ fnArg = NoCall
    /\ \E pixels \in Buffers :
          \E out \in CorrectColors(pixels) :
             /\ fnArg' = [op |-> "_correct_colors", pixels |-> pixels]
             /\ fnRet' = [op |-> "_correct_colors", out |-> out]
    /\ UNCHANGED <<config, Pipeline>>

SpecColors == InitColors /\ [][CorrectColorsCall]_vars

(***************************************************************************)
(* Properties.                                                             *)
(***************************************************************************)
Returned(t) == pc[t] = "done"

Failure(t) == [success |-> FALSE, error |-> err[t].message]

Last(seq) == seq[Len(seq)]

\* C1: for every image and every target size, _smart_resize returns a buffer
\* of exactly the target size, the scaled intermediate size is not smaller
\* than the target on either axis, and so the centre-crop box lies inside
\* the scaled buffer.
C1_ScaledBufferCoversTarget ==
    fnRet.op = "_smart_resize" =>
        /\ fnRet.out.image.width = config.target_size[1]
        /\ fnRet.out.image.height = config.target_size[2]
        /\ fnRet.out.new_size[1] >= config.target_size[1]
        /\ fnRet.out.new_size[2] >= config.target_size[2]
        /\ ~fnRet.out.image.padded

\* the methods an invocation without a fault calls, in order
ExpectedChain(cfg) ==
    <<"_validate_input", "_load_image">>
    \o (IF cfg.auto_crop THEN <<"_auto_crop_plant">> ELSE <<>>)
    \o <<"_smart_resize", "_normalize_lighting">>
    \o (IF cfg.color_correction THEN <<"_correct_colors">> ELSE <<>>)
    \o <<"_enhance_quality">>
    \o (IF cfg.noise_reduction THEN <<"_reduce_noise">> ELSE <<>>)
    \o <<"_save_image", "_calculate_quality_metrics">>

\* C2: no fault escapes process_image.  Once a step has faulted the
\* invocation is in the handler or has returned, and it returns
\* success=false with the error string; it returns success=true only when
\* validation, decoding, every enabled stage and the encoder have all run
\* and none has faulted.
C2_NoFaultEscapes ==
    \A t \in DOMAIN pc :
        /\ pc[t] # "escaped"
        /\ err[t] # NoError => pc[t] \in {"except", "error_write", "done"}
        /\ Returned(t) =>
              \/ /\ err[t] # NoError
                 /\ err[t].message # ""
                 /\ result[t] = Failure(t)
              \/ /\ err[t] = NoError
                 /\ result[t].success
                 /\ executed[t] = ExpectedChain(config)

\* a fault while the result is assembled, after the encoder, was returned as
\* a failure
C2_LateFaultReturned ==
    \E t \in DOMAIN pc :
        /\ Returned(t)
        /\ err[t] = [class |-> "cv2.error", message |-> "result"]
        /\ result[t] = Failure(t)

\* the path does not exist, the extension is not on the list, or the file is
\* larger than 20 MiB
Rejected(file) ==
    \/ ~file.exists
    \/ Lower(file.suffix) \notin {".jpg", ".jpeg", ".png", ".webp", ".bmp", ".tiff"}
    \/ file.st_size > 20 * 1024 * 1024

\* C3: when the input does not exist, has an extension outside the list or is
\* larger than 20 MiB, the invocation calls nothing but the validation (not
\* the decoder, no stage, not the encoder) and returns success=false.
C3_ValidationGates ==
    \A t \in DOMAIN pc :
        (pc[t] # "idle" /\ Rejected(input[t])) =>
            /\ executed[t] \in {<<>>, <<"_validate_input">>}
            /\ pc[t] \in {"validate", "except", "error_write", "done"}
            /\ Returned(t) => result[t] = Failure(t)

\* a file of a listed extension, one byte over 20 MiB, was refused
C3_OversizeRefused ==
    \E t \in DOMAIN pc :
        /\ Returned(t)
        /\ input[t].exists
        /\ input[t].suffix = ".JPG"
        /\ input[t].st_size = 20 * 1024 * 1024 + 1
        /\ result[t] = Failure(t)
        /\ executed[t] = <<"_validate_input">>

\* C4: with one caller, an invocation that returns success=false has raised
\* error_count by exactly one since it started, and one that returns
\* success=true has left it as it was.
C4_ErrorCountedOnce ==
    \A t \in DOMAIN pc :
        Returned(t) =>
            stats.error_count = entry[t].error_count + (IF result[t].success THEN 0 ELSE 1)

\* a second failure in a row, in the encoder, brought error_count to 2
C4_SecondFailureCounted ==
    \E t \in DOMAIN pc :
        /\ Returned(t)
        /\ calls[t] = 2
        /\ err[t].message = "_save_image"
        /\ ~result[t].success
        /\ entry[t].error_count = 1
        /\ stats.error_count = 2

\* the method of _preprocess_pipeline that applies the stage of a name
StageMethod(name) ==
    CASE name = "auto_crop_plant_focus" -> "_auto_crop_plant"
      [] name = "resize_to_512x512" -> "_smart_resize"
      [] name = "lighting_normalization" -> "_normalize_lighting"
      [] name = "color_correction" -> "_correct_colors"
      [] name = "contrast_enhancement" -> "_enhance_quality"
      [] name = "sharpness_enhancement" -> "_enhance_quality"
      [] name = "noise_reduction" -> "_reduce_noise"

\* the place of the call of a method in the log of an invocation
Position(log, method) == CHOOSE i \in 1..Len(log) : log[i] = method

\* C5: in a successful result, the names of preprocessing_applied are in the
\* order in which their stages were executed: a name earlier in the list is
\* that of a stage that did not run after the stage of a later name.
C5_AppliedInExecutionOrder ==
    \A t \in DOMAIN pc :
        (Returned(t) /\ result[t].success) =>
            \A i, j \in 1..Len(result[t].preprocessing_applied) :
                i < j =>
                    Position(executed[t], StageMethod(result[t].preprocessing_applied[i]))
                        <= Position(executed[t], StageMethod(result[t].preprocessing_applied[j]))

\* the names and the calls of a run with the default configuration
DefaultApplied ==
    <<"auto_crop_plant_focus", "resize_to_512x512", "lighting_normalization",
      "contrast_enhancement", "sharpness_enhancement", "color_correction", "noise_reduction">>

DefaultChain ==
    <<"_validate_input", "_load_image", "_auto_crop_plant", "_smart_resize",
      "_normalize_lighting", "_correct_colors", "_enhance_quality", "_reduce_noise",
      "_save_image", "_calculate_quality_metrics">>

Without(seq, names) ==
    LET Kept(x) == x \notin names
    IN  SelectSeq(seq, Kept)

NoColorNoNoise ==
    [DefaultConfig EXCEPT !.color_correction = FALSE, !.noise_reduction = FALSE]

\* C6: a successful run with the default configuration reports DefaultApplied
\* and calls DefaultChain; with noise reduction and color correction
\* disabled, the run reports the same names without 'color_correction' and
\* 'noise_reduction', in the same order, and makes the same calls without
\* those of the Color Corrector and the Noise Reducer.
C6_DisablingRemovesExactlyTwo ==
    \A t \in DOMAIN pc :
        (Returned(t) /\ result[t].success) =>
            /\ config = DefaultConfig =>
                  /\ result[t].preprocessing_applied = DefaultApplied
                  /\ executed[t] = DefaultChain
            /\ config = NoColorNoNoise =>
                  /\ result[t].preprocessing_applied =
                        Without(DefaultApplied, {"color_correction", "noise_reduction"})
                  /\ executed[t] = Without(DefaultChain, {"_correct_colors", "_reduce_noise"})

\* a run with the two steps disabled succeeded
C6_ReducedRunSucceeded ==
    \E t \in DOMAIN pc :
        /\ Returned(t)
        /\ result[t].success
        /\ config = NoColorNoNoise
        /\ Len(result[t].preprocessing_applied) = 5

\* C7: when the Subject Locator finds no green component, or a step inside
\* it faults, it returns the buffer it was given (the decoded image), no
\* fault reaches the pipeline, and the Geometric Normalizer is next.
C7_LocatorFallsBackToInput ==
    \A t \in DOMAIN pc :
        (/\ executed[t] # <<>>
         /\ Last(executed[t]) = "_auto_crop_plant"
         /\ found[t].kind \in {"none", "fault"}) =>
            /\ pc[t] = "resize"
            /\ image[t] = NewImage(input[t].size)
            /\ err[t] = NoError

\* the locator faulted, and the pipeline is about to resize the decoded image
C7_FaultPassedThrough ==
    \E t \in DOMAIN pc :
        /\ pc[t] = "resize"
        /\ Last(executed[t]) = "_auto_crop_plant"
        /\ found[t] = LocatorFault
        /\ image[t] = NewImage(<<20, 10>>)

\* C8: once all the concurrent invocations have returned (none of them having
\* faulted after it was counted as processed), processed_count is the
\* number of successes and error_count the number of failures.
C8_CountersMatchReturns ==
    ((\A t \in DOMAIN pc : Returned(t)) /\ returned.late = 0) =>
        /\ stats.processed_count = returned.ok
        /\ stats.error_count = returned.failed

\* C9: the Subject Locator crops to the bounding rectangle <<x, y, w, h>>
\* widened by px = floor(0.1 * W) on the left and on the right and by
\* py = floor(0.1 * H) above and below, clamped to the image; the crop is
\* inside the image and not empty.
C9_CropIsClampedExpansion ==
    (fnRet.op = "_auto_crop_plant" /\ fnArg.seen.kind = "rect") =>
        LET W  == fnArg.image.width
            H  == fnArg.image.height
            x  == fnArg.seen.rect[1]
            y  == fnArg.seen.rect[2]
            w  == fnArg.seen.rect[3]
            h  == fnArg.seen.rect[4]
            px == W \div 10
            py == H \div 10
        IN  /\ fnRet.out.region =
                  <<Max(0, x - px), Max(0, y - py), Min(W, x + w + px), Min(H, y + h + py)>>
            /\ ~fnRet.out.padded
            /\ fnRet.out.width > 0
            /\ fnRet.out.height > 0

\* v lies strictly between a and b
Between(v, a, b) == (a < v /\ v < b) \/ (b < v /\ v < a)

Distance(a, b) == IF a >= b THEN a - b ELSE b - a

\* no value of the channel is scaled beyond 255
Unclipped(pixels, ch) ==
    LET scale == Scale(ChannelSum(pixels, ch), ChannelSum(pixels, 2))
    IN  \A i \in DOMAIN pixels : pixels[i][ch] * scale[1] <= 255 * scale[2]

\* C10 as stated: whenever the mean of the red channel is positive and is
\* not the mean of the green channel, its mean after _correct_colors is
\* strictly between the two; and so for the blue channel.  (Means are
\* compared by the sums of the channels.)
C10_MeanStrictlyBetween ==
    fnRet.op = "_correct_colors" =>
        \A ch \in {1, 3} :
            LET before == ChannelSum(fnArg.pixels, ch)
                target == ChannelSum(fnArg.pixels, 2)
                after  == ChannelSum(fnRet.out, ch)
            IN  (before > 0 /\ before # target) => Between(after, before, target)

\* C10: when the mean of the red channel is positive and at least 4 levels
\* away from the mean of the green channel, and no red value is scaled
\* beyond 255, the red mean after _correct_colors is strictly between the
\* two; and so for the blue channel.
C10_MeanBetweenWhenFarApart ==
    fnRet.op = "_correct_colors" =>
        \A ch \in {1, 3} :
            LET before == ChannelSum(fnArg.pixels, ch)
                target == ChannelSum(fnArg.pixels, 2)
                after  == ChannelSum(fnRet.out, ch)
            IN  (/\ before > 0
                 /\ Distance(before, target) >= 4 * Len(fnArg.pixels)
                 /\ Unclipped(fnArg.pixels, ch)) => Between(after, before, target)

\* red at 100 everywhere and green at 104 everywhere: red comes out at 101
C10_RedRaisedTowardGreen ==
    /\ fnRet.op = "_correct_colors"
    /\ \A i \in DOMAIN fnArg.pixels : fnArg.pixels[i] = <<100, 104, 104>>
    /\ \A i \in DOMAIN fnRet.out : fnRet.out[i] = <<101, 104, 104>>

\* C11: with one caller every invocation is counted exactly once.  When an
\* invocation has returned, processed_count + error_count is the number of
\* invocations made so far, and an invocation that returned success=false
\* has left processed_count and avg_processing_time as they were when it
\* started, also when the fault came after the output file was written.
C11_EveryInvocationCountedOnce ==
    \A t \in DOMAIN pc :
        Returned(t) =>
            /\ stats.processed_count + stats.error_count = calls[t]
            /\ ~result[t].success =>
                  /\ stats.processed_count = entry[t].processed_count
                  /\ stats.avg_processing_time = entry[t].avg_processing_time

====
